---- MODULE Spec2Model ----
(***************************************************************************)
(* Model of infiDate-js (src/src/infidate.js): the date utilities, the     *)
(* disable/enable rule evaluator and the selection state machine of        *)
(* InfiDatePicker.                                                         *)
(*                                                                         *)
(* A JavaScript Date is modelled by its timestamp, counted in ticks of     *)
(* 1/TicksPerDay of a day from local midnight of EpochYear-EpochMonth-     *)
(* EpochDay (month 0-based as in JavaScript).  Local days all have the     *)
(* same length (no daylight-saving change inside the window).  Strings     *)
(* are sequences of one-character strings.                                 *)
(***************************************************************************)
EXTENDS Integers, Sequences, FiniteSets, TLC

\* ---------------------------------------------------------------- bounds
\* ticks per local day (resolution of the time of day)
TicksPerDay == 2
\* number of calendar days in the window of candidate dates
NumDays == 4
\* the clock (new Date()) starts at local midnight of the second day of the
\* window and advances by at most ClockSteps ticks
ClockSteps == 1

\* the window starts at local midnight of 2025-11-25 (month 0-based)
EpochYear == 2025
EpochMonth == 10
EpochDay == 25

\* null / undefined
NULL == -1

MaxTick == NumDays * TicksPerDay - 1
\* every Date value an operation may be handed
Dates == 0 .. MaxTick

\* ------------------------------------------------------- calendar fields
isLeapYear(y) ==
  (y % 4 = 0 /\ y % 100 # 0) \/ y % 400 = 0

\* new Date(year, month + 1, 0).getDate()
getDaysInMonth(y, m) ==
  CASE m = 1 -> IF isLeapYear(y) THEN 29 ELSE 28
    [] m \in {3, 5, 8, 10} -> 30
    [] OTHER -> 31

\* new Date(y, m, d) for a day number d >= 1 that may overflow the month:
\* the normalised <<year, month, day>>
RECURSIVE normalizeYMD(_, _, _)
normalizeYMD(y, m, d) ==
  IF d <= getDaysInMonth(y, m) THEN <<y, m, d>>
  ELSE IF m = 11 THEN normalizeYMD(y + 1, 0, d - getDaysInMonth(y, m))
  ELSE normalizeYMD(y, m + 1, d - getDaysInMonth(y, m))

\* the local calendar day (0-based from the epoch) a timestamp falls on
dayOf(t) == t \div TicksPerDay

\* <<getFullYear(), getMonth(), getDate()>> of a Date
localFields(t) == normalizeYMD(EpochYear, EpochMonth, EpochDay + dayOf(t))

getFullYear(t) == localFields(t)[1]
getMonth(t) == localFields(t)[2]
getDate(t) == localFields(t)[3]

\* new Date(year, month, day): local midnight of that day, for days of the
\* window (and one day either side of it)
newDate(y, m, d) ==
  LET cands == {n \in 0 .. NumDays :
                  normalizeYMD(EpochYear, EpochMonth, EpochDay + n) = <<y, m, d>>}
  IN IF cands = {} THEN NULL ELSE (CHOOSE n \in cands : TRUE) * TicksPerDay

\* ---------------------------------------------------------------- strings
DigitChars == <<"0", "1", "2", "3", "4", "5", "6", "7", "8", "9">>

digit(n) == DigitChars[n + 1]

\* String(n).padStart(2, '0') for 0 <= n <= 99
pad2(n) == <<digit(n \div 10), digit(n % 10)>>

\* String(n) for a four-digit year
str4(n) ==
  <<digit(n \div 1000), digit((n \div 100) % 10), digit((n \div 10) % 10), digit(n % 10)>>

\* UTF-16 code unit of the characters that occur in the strings of the model
charCode(c) ==
  CASE c = "-" -> 45
    [] c = "x" -> 120
    [] OTHER -> 48 + (CHOOSE n \in 0 .. 9 : DigitChars[n + 1] = c)

\* JavaScript's s < t on strings: lexicographic by code unit
RECURSIVE strLess(_, _)
strLess(s, t) ==
  IF t = <<>> THEN FALSE
  ELSE IF s = <<>> THEN TRUE
  ELSE IF charCode(Head(s)) # charCode(Head(t)) THEN charCode(Head(s)) < charCode(Head(t))
  ELSE strLess(Tail(s), Tail(t))

strLeq(s, t) == s = t \/ strLess(s, t)

\* InfiDateUtils.iso: YYYY-MM-DD from the local fields
isoString(d) ==
  str4(getFullYear(d)) \o <<"-">> \o pad2(getMonth(d) + 1) \o <<"-">> \o pad2(getDate(d))

\* iso, tabulated over the Dates of the window and of the day after it
isoTable == [d \in 0 .. (NumDays + 1) * TicksPerDay |-> isoString(d)]

iso(d) == isoTable[d]

MONTH_NAMES_SHORT ==
  <<"Jan", "Feb", "Mar", "Apr", "May", "Jun", "Jul", "Aug", "Sep", "Oct", "Nov", "Dec">>

\* InfiDateUtils.formatDate(date, 'MMM D, YYYY'): the three substituted tokens
formatDate(d) == <<MONTH_NAMES_SHORT[getMonth(d) + 1], getDate(d), getFullYear(d)>>

\* the value of a decimal digit string (parseInt(s, 10))
RECURSIVE parseInt(_)
parseInt(s) ==
  IF s = <<>> THEN 0
  ELSE 10 * parseInt(SubSeq(s, 1, Len(s) - 1)) + (charCode(s[Len(s)]) - 48)

isDigit(c) == charCode(c) >= 48 /\ charCode(c) <= 57

\* /^(\d{4})-(\d{2})-(\d{2})$/
isoMatch(s) ==
  /\ Len(s) = 10
  /\ s[5] = "-" /\ s[8] = "-"
  /\ \A i \in {1, 2, 3, 4, 6, 7, 9, 10} : isDigit(s[i])

\* ------------------------------------------------------------ date inputs
\* A value handed to parseDate: null, a Date, the token 'today', or a string.
InNull == [kind |-> "null", t |-> NULL, s |-> <<>>]
InDate(t) == [kind |-> "date", t |-> t, s |-> <<>>]
InToday == [kind |-> "today", t |-> NULL, s |-> <<>>]
InStr(s) == [kind |-> "str", t |-> NULL, s |-> s]
\* a string no Date can be made of
Junk == <<"x", "x">>

\* ISO day strings of days of the window
Nov26 == <<"2", "0", "2", "5", "-", "1", "1", "-", "2", "6">>
Nov27 == <<"2", "0", "2", "5", "-", "1", "1", "-", "2", "7">>
Nov28 == <<"2", "0", "2", "5", "-", "1", "1", "-", "2", "8">>

\* parseString that hands the 1-based month of the string to new Date
parseString_monthKept(s) ==
  IF s = <<>> THEN NULL
  ELSE IF isoMatch(s)
  THEN newDate(parseInt(SubSeq(s, 1, 4)),
               parseInt(SubSeq(s, 6, 7)),
               parseInt(SubSeq(s, 9, 10)))
  ELSE NULL

\* the string branch of InfiDateUtils.parseDate: an ISO day string is parsed
\* as a local date; any other string here is one new Date() cannot parse
parseString(s) ==
  IF s = <<>> THEN NULL
  ELSE IF isoMatch(s)
  THEN newDate(parseInt(SubSeq(s, 1, 4)),
               parseInt(SubSeq(s, 6, 7)) - 1,
               parseInt(SubSeq(s, 9, 10)))
  ELSE NULL

\* parseString, tabulated over the strings the configurations use and the
\* ISO day strings of the Dates of the window
parseTable ==
  [s \in {<<>>, Junk, Nov26, Nov27, Nov28} \cup {isoString(d) : d \in Dates} |->
     parseString(s)]

\* InfiDateUtils.parseDate; clock is the value of new Date()
parseDate(input, clock) ==
  CASE input.kind = "null" -> NULL
    [] input.kind = "date" -> input.t
    [] input.kind = "today" -> clock
    [] OTHER -> parseTable[input.s]

\* ------------------------------------------------------------------ rules
\* An element of config.disable / config.enable: a predicate function (given
\* by the set of Dates it returns true on), a Date, a string, or an object
\* {from, to} of two date inputs.
RuleFn(on) == [kind |-> "fn", on |-> on, t |-> NULL, s |-> <<>>, from |-> InNull, to |-> InNull]
RuleDate(t) == [kind |-> "date", on |-> {}, t |-> t, s |-> <<>>, from |-> InNull, to |-> InNull]
RuleStr(s) == [kind |-> "str", on |-> {}, t |-> NULL, s |-> s, from |-> InNull, to |-> InNull]
RuleRange(from, to) == [kind |-> "range", on |-> {}, t |-> NULL, s |-> <<>>, from |-> from, to |-> to]

\* truthiness of a date input (disable.from && disable.to)
truthy(input) == input.kind # "null" /\ ~(input.kind = "str" /\ input.s = <<>>)

\* one iteration of the loop of InfiDateUtils.isDateDisabled / isDateEnabled
ruleMatches(date, rule, clock) ==
  CASE rule.kind = "fn" -> date \in rule.on
    [] rule.kind = "date" -> iso(date) = iso(rule.t)
    [] rule.kind = "str" -> iso(date) = rule.s
    [] rule.kind = "range" ->
         /\ truthy(rule.from) /\ truthy(rule.to)
         /\ LET fromDate == parseDate(rule.from, clock)
                toDate == parseDate(rule.to, clock)
            IN /\ fromDate # NULL /\ toDate # NULL
               /\ strLeq(iso(fromDate), iso(date))
               /\ strLeq(iso(date), iso(toDate))
    [] OTHER -> FALSE

\* config.disable is always an array here; config.enable is null or an array
NoList == [isNull |-> TRUE, rules |-> <<>>]
List(rules) == [isNull |-> FALSE, rules |-> rules]

\* isDateDisabled whose final return is true
Utils_isDateDisabled_closed(date, disableArray, clock) ==
  IF disableArray.isNull THEN FALSE
  ELSE \/ \E i \in 1 .. Len(disableArray.rules) : ruleMatches(date, disableArray.rules[i], clock)
       \/ disableArray.rules = <<>>

\* InfiDateUtils.isDateDisabled(date, disableArray)
Utils_isDateDisabled(date, disableArray, clock) ==
  IF disableArray.isNull THEN FALSE
  ELSE \E i \in 1 .. Len(disableArray.rules) : ruleMatches(date, disableArray.rules[i], clock)

\* isDateEnabled that takes an empty enable array for no whitelist
Utils_isDateEnabled_emptyOpen(date, enableArray, clock) ==
  IF enableArray.isNull \/ enableArray.rules = <<>> THEN TRUE
  ELSE \E i \in 1 .. Len(enableArray.rules) : ruleMatches(date, enableArray.rules[i], clock)

\* InfiDateUtils.isDateEnabled(date, enableArray)
Utils_isDateEnabled(date, enableArray, clock) ==
  IF enableArray.isNull THEN TRUE
  ELSE \E i \in 1 .. Len(enableArray.rules) : ruleMatches(date, enableArray.rules[i], clock)

\* InfiDateUtils.daysDiff: Math.round((date2 - date1) / oneDay); Math.round
\* rounds halves up
daysDiff(date1, date2) == (2 * (date2 - date1) + TicksPerDay) \div (2 * TicksPerDay)

\* InfiDateUtils.isSameDay
isSameDay(date1, date2) ==
  IF date1 = NULL \/ date2 = NULL THEN FALSE ELSE iso(date1) = iso(date2)

\* ----------------------------------------------------------- picker state
VARIABLES
  config,             \* this.config
  isOpen,             \* this.isOpen
  selectedDate,       \* this.selectedDate (NULL or a Date)
  selectedStartDate,  \* this.selectedStartDate
  selectedEndDate,    \* this.selectedEndDate
  loadedMonths,       \* this.loadedMonths: the month keys, in loading order
  themeClasses,       \* the theme names X of the container's classes infidate-picker--theme-X
  container,          \* this.container: "element" or "null"
  attachedElement,    \* this.attachedElement: "null", "input" or "div"
  dayCells,           \* the rendered day cells of the window: for the cell
                      \* of day c, those of its classes infidate-day--disabled
                      \* and infidate-day--selected that are set
  inputValue,         \* the value of the attached input
  utcOffset,          \* the host's offset from UTC, in ticks (east positive)
  now,                \* the host clock: the value of new Date()
  events,             \* the callbacks invoked by the last operation, in order
  last                \* the last operation called and its argument (the string
                      \* argument, a mode or a theme name, is last.mode)

vars ==
  <<config, isOpen, selectedDate, selectedStartDate, selectedEndDate,
    loadedMonths, themeClasses, container, attachedElement, dayCells, inputValue,
    utcOffset, now, events, last>>

\* the fields of the instance and of its DOM nodes an operation reads and
\* writes, the host's clock and UTC offset as the operation reads them, and
\* the callbacks it has invoked
picker ==
  [isOpen |-> isOpen, selectedDate |-> selectedDate,
   selectedStartDate |-> selectedStartDate, selectedEndDate |-> selectedEndDate,
   mode |-> config.mode, theme |-> config.theme,
   loadedMonths |-> loadedMonths, themeClasses |-> themeClasses,
   container |-> container, attachedElement |-> attachedElement,
   dayCells |-> dayCells, inputValue |-> inputValue,
   now |-> now, utcOffset |-> utcOffset, events |-> <<>>]

\* ------------------------------------------------------------- callbacks
\* number of functions in an array-valued hook
HandlersInArray == 2

\* a hook (config.onChange, onOpen, onClose) is null, a function or an array
\* of functions: the number of callbacks a trigger invokes
callbacks(hook) ==
  CASE hook = "null" -> 0
    [] hook = "fn" -> 1
    [] OTHER -> HandlersInArray

\* the callback invocations of one trigger, in order
invoke(type, hook, data) ==
  [i \in 1 .. callbacks(hook) |-> [type |-> type, cb |-> i, data |-> data]]

\* InfiDatePicker.getChangeData
getChangeData(p) ==
  IF p.mode = "single"
  THEN [date |-> p.selectedDate,
        formatted |-> IF p.selectedDate # NULL THEN formatDate(p.selectedDate) ELSE <<>>,
        iso |-> IF p.selectedDate # NULL THEN iso(p.selectedDate) ELSE <<>>]
  ELSE LET data ==
             [start |-> p.selectedStartDate,
              end |-> p.selectedEndDate,
              formatted |->
                [start |-> IF p.selectedStartDate # NULL THEN formatDate(p.selectedStartDate) ELSE <<>>,
                 end |-> IF p.selectedEndDate # NULL THEN formatDate(p.selectedEndDate) ELSE <<>>],
              iso |->
                [start |-> IF p.selectedStartDate # NULL THEN iso(p.selectedStartDate) ELSE <<>>,
                 end |-> IF p.selectedEndDate # NULL THEN iso(p.selectedEndDate) ELSE <<>>],
              nights |-> NULL,
              days |-> NULL]
       IN IF p.selectedStartDate # NULL /\ p.selectedEndDate # NULL
          THEN [data EXCEPT
                  !.nights = daysDiff(p.selectedStartDate, p.selectedEndDate),
                  !.days = daysDiff(p.selectedStartDate, p.selectedEndDate) + 1]
          ELSE data

\* a TypeError thrown by the operation: it ends there
throw(p) == [p EXCEPT !.events = Append(@, [type |-> "throw", cb |-> 0, data |-> <<>>])]

\* the operation has thrown: none of its later statements runs
threw(p) == p.events # <<>> /\ p.events[Len(p.events)].type = "throw"

\* a property read or method call on this.container, which throws a
\* TypeError when the container is null
onContainer(p) ==
  IF threw(p) THEN p
  ELSE IF p.container = "null" THEN throw(p)
  ELSE p

\* triggerChange that stops after the first function of a list
triggerChange_first(p, cfg) ==
  IF threw(p) THEN p
  ELSE [p EXCEPT !.events =
          @ \o SelectSeq(invoke("change", cfg.onChange, getChangeData(p)),
                         LAMBDA e : e.cb = 1)]

\* InfiDatePicker.triggerChange
triggerChange(p, cfg) ==
  IF threw(p) THEN p
  ELSE [p EXCEPT !.events = @ \o invoke("change", cfg.onChange, getChangeData(p))]

\* InfiDatePicker.triggerOpen
triggerOpen(p, cfg) ==
  IF threw(p) THEN p
  ELSE [p EXCEPT !.events = @ \o invoke("open", cfg.onOpen, <<>>)]

\* InfiDatePicker.triggerClose
triggerClose(p, cfg) ==
  IF threw(p) THEN p
  ELSE [p EXCEPT !.events = @ \o invoke("close", cfg.onClose, <<>>)]

\* show without the test of isOpen
show_again(p, cfg) == triggerOpen(onContainer([p EXCEPT !.isOpen = TRUE]), cfg)

\* InfiDatePicker.show
show(p, cfg) ==
  IF p.isOpen THEN p
  ELSE triggerOpen(onContainer([p EXCEPT !.isOpen = TRUE]), cfg)

\* hide that drops the selected date as it closes
hide_reset(p, cfg) ==
  IF threw(p) \/ ~p.isOpen THEN p
  ELSE triggerClose(onContainer([p EXCEPT !.isOpen = FALSE, !.selectedDate = NULL]), cfg)

\* InfiDatePicker.hide
hide(p, cfg) ==
  IF threw(p) \/ ~p.isOpen THEN p
  ELSE triggerClose(onContainer([p EXCEPT !.isOpen = FALSE]), cfg)

\* the minDate check that takes an unparseable minDate for a bound no date
\* reaches
belowMinDate_strict(date, cfg, clock) ==
  /\ truthy(cfg.minDate)
  /\ \/ parseDate(cfg.minDate, clock) = NULL
     \/ date < parseDate(cfg.minDate, clock)

\* the minDate check of InfiDatePicker.isDateDisabled: the Dates compare by
\* their timestamps
belowMinDate(date, cfg, clock) ==
  /\ truthy(cfg.minDate)
  /\ parseDate(cfg.minDate, clock) # NULL
  /\ date < parseDate(cfg.minDate, clock)

\* the maxDate check of InfiDatePicker.isDateDisabled
aboveMaxDate(date, cfg, clock) ==
  /\ truthy(cfg.maxDate)
  /\ parseDate(cfg.maxDate, clock) # NULL
  /\ date > parseDate(cfg.maxDate, clock)

\* isDateDisabled in which a whitelist match settles the answer
isDateDisabledBy_whitelistWins(date, cfg, clock) ==
  IF ~cfg.enable.isNull THEN ~Utils_isDateEnabled(date, cfg.enable, clock)
  ELSE IF belowMinDate(date, cfg, clock) THEN TRUE
  ELSE IF aboveMaxDate(date, cfg, clock) THEN TRUE
  ELSE Utils_isDateDisabled(date, cfg.disable, clock)

\* InfiDatePicker.isDateDisabled, as the code computes it
isDateDisabledBy(date, cfg, clock) ==
  IF ~cfg.enable.isNull /\ ~Utils_isDateEnabled(date, cfg.enable, clock) THEN TRUE
  ELSE IF belowMinDate(date, cfg, clock) THEN TRUE
  ELSE IF aboveMaxDate(date, cfg, clock) THEN TRUE
  ELSE Utils_isDateDisabled(date, cfg.disable, clock)

\* the fields of the configuration isDateDisabled reads
dateRules(cfg) ==
  [minDate |-> cfg.minDate, maxDate |-> cfg.maxDate,
   disable |-> cfg.disable, enable |-> cfg.enable]

\* the date constraints of a configuration: minDate, maxDate, disable, enable
RuleConfigs ==
  { \* the defaults: nothing is disabled
    [minDate |-> InNull, maxDate |-> InNull, disable |-> List(<<>>), enable |-> NoList],
    \* an exact string, an exact Date and a predicate in the blacklist
    [minDate |-> InNull, maxDate |-> InNull,
     disable |-> List(<<RuleStr(Nov26), RuleDate(MaxTick), RuleFn({0})>>), enable |-> NoList],
    \* minDate 'today', an interval in the blacklist
    [minDate |-> InToday, maxDate |-> InStr(Nov28),
     disable |-> List(<<RuleRange(InStr(Nov27), InStr(Nov27))>>), enable |-> NoList],
    \* a whitelist, an interval with an unparseable bound, a maxDate
    [minDate |-> InStr(Junk), maxDate |-> InDate(MaxTick - 1),
     disable |-> List(<<RuleRange(InStr(Junk), InStr(Nov28))>>),
     enable |-> List(<<RuleRange(InStr(Nov26), InStr(Nov28)), RuleFn({1})>>)],
    \* an empty whitelist: every date is disabled
    [minDate |-> InNull, maxDate |-> InNull, disable |-> List(<<>>), enable |-> List(<<>>)] }

\* date constraints in which the rules overlap or cannot be parsed
OverlapRules ==
  { \* Nov 27 is in the whitelist and in the blacklist
    [minDate |-> InNull, maxDate |-> InNull,
     disable |-> List(<<RuleStr(Nov27)>>),
     enable |-> List(<<RuleStr(Nov26), RuleStr(Nov27)>>)],
    \* Nov 26, 27 and 28 are in the whitelist, Nov 26 is before minDate and
    \* Nov 28 after maxDate
    [minDate |-> InStr(Nov27), maxDate |-> InStr(Nov27), disable |-> List(<<>>),
     enable |-> List(<<RuleRange(InStr(Nov26), InStr(Nov28))>>)],
    \* unparseable bounds, and blacklist intervals with an unparseable end
    [minDate |-> InStr(Junk), maxDate |-> InStr(Junk),
     disable |-> List(<<RuleRange(InStr(Junk), InStr(Nov28)),
                        RuleRange(InStr(Nov26), InStr(Junk)), RuleStr(Nov28)>>),
     enable |-> NoList],
    \* a whitelist interval with an unparseable end
    [minDate |-> InNull, maxDate |-> InStr(Junk), disable |-> List(<<>>),
     enable |-> List(<<RuleRange(InStr(Junk), InStr(Nov28)), RuleStr(Nov26),
                       RuleStr(Nov27)>>)] }

\* isDateDisabledBy, tabulated over the date constraints of the
\* configurations, the values of the clock, and the Dates of the window and
\* of the day after it
disabledTable ==
  [rc \in RuleConfigs \cup OverlapRules |->
     [clock \in TicksPerDay .. TicksPerDay + ClockSteps |->
        [d \in 0 .. (NumDays + 1) * TicksPerDay |-> isDateDisabledBy(d, rc, clock)]]]

\* InfiDatePicker.isDateDisabled
isDateDisabled(date, cfg, clock) == disabledTable[dateRules(cfg)][clock][date]

\* ---------------------------------------------------------------- display
\* the day cells of the inner days of the window: cell c carries the
\* data-date tag iso of day c of the window.  Their dates, parsed on any
\* host, are Dates of the window
Cells == 1 .. NumDays - 1

\* new Date(year, month, day) of createMonthHTML: local midnight of the day
cellMidnight(c) == c * TicksPerDay

\* new Date(dateStr) of a cell's data-date tag: a date-only ISO string is
\* parsed as UTC midnight, which is offset ticks after local midnight
cellDate(c, offset) == c * TicksPerDay + offset

\* InfiDatePicker.isDateSelected
isDateSelected(p, date) ==
  IF p.mode = "single"
  THEN p.selectedDate # NULL /\ isSameDay(date, p.selectedDate)
  ELSE \/ p.selectedStartDate # NULL /\ isSameDay(date, p.selectedStartDate)
       \/ p.selectedEndDate # NULL /\ isSameDay(date, p.selectedEndDate)

\* the disabled and selected classes createMonthHTML and updateDisplay give
\* the cell of a date
cellClasses(p, cfg, date) ==
  (IF isDateDisabled(date, cfg, p.now) THEN {"disabled"} ELSE {})
    \cup (IF isDateSelected(p, date) THEN {"selected"} ELSE {})

\* InfiDatePicker.createMonthHTML: the day cells of a month
createMonthHTML(p, cfg, y, m) ==
  [c \in {k \in Cells : getFullYear(cellMidnight(k)) = y /\ getMonth(cellMidnight(k)) = m}
     |-> cellClasses(p, cfg, cellMidnight(c))]

\* InfiDatePicker.getFormattedValue
getFormattedValue(p) ==
  IF p.mode = "single"
  THEN IF p.selectedDate # NULL THEN formatDate(p.selectedDate) ELSE <<>>
  ELSE IF p.selectedStartDate # NULL /\ p.selectedEndDate # NULL
  THEN formatDate(p.selectedStartDate) \o <<"to">> \o formatDate(p.selectedEndDate)
  ELSE IF p.selectedStartDate # NULL THEN formatDate(p.selectedStartDate)
  ELSE <<>>

\* InfiDatePicker.updateDisplay
updateDisplay(p, cfg) ==
  IF threw(p) THEN p
  ELSE IF p.container = "null" THEN throw(p)
  ELSE [p EXCEPT
          !.dayCells = [c \in DOMAIN p.dayCells |->
                          cellClasses(p, cfg, cellDate(c, p.utcOffset))],
          !.inputValue = IF p.attachedElement = "input" THEN getFormattedValue(p) ELSE @]

\* ------------------------------------------------------------- pagination
\* String(n) of a month number 0 .. 11
strMonth(m) == IF m < 10 THEN <<digit(m)>> ELSE pad2(m)

\* the month key `${monthDate.getFullYear()}-${monthDate.getMonth()}`
monthKey(y, m) == str4(y) \o <<"-">> \o strMonth(m)

\* lastLoadedMonth.split('-').map(Number): <<year, month>> of a month key
splitKey(key) ==
  LET dash == CHOOSE i \in 1 .. Len(key) :
                key[i] = "-" /\ \A j \in 1 .. i - 1 : key[j] # "-"
  IN <<parseInt(SubSeq(key, 1, dash - 1)), parseInt(SubSeq(key, dash + 1, Len(key)))>>

\* new Date(year, month, 1) that leaves the year as it is
monthOf_sameYear(y, m) == <<y, m % 12>>

\* new Date(year, month, 1) for a month number that may exceed 11:
\* <<getFullYear(), getMonth()>>
monthOf(y, m) == <<y + m \div 12, m % 12>>

\* config.minYear / config.maxYear is set (truthy)
yearSet(year) == year # NULL /\ year # 0

\* InfiDatePicker.triggerMonthChange
triggerMonthChange(p, cfg, y, m) ==
  [p EXCEPT !.events = @ \o invoke("monthChange", cfg.onMonthChange, <<y, m>>)]

\* the onDayCreate callbacks of loadMonth: InfiDatePicker.triggerDayCreate
\* for every day cell of the month, with the formatted date of the cell
RECURSIVE triggerDayCreates(_, _, _, _, _)
triggerDayCreates(p, cfg, y, m, day) ==
  IF day > getDaysInMonth(y, m) THEN p
  ELSE triggerDayCreates(
         [p EXCEPT !.events =
            @ \o invoke("dayCreate", cfg.onDayCreate, <<MONTH_NAMES_SHORT[m + 1], day, y>>)],
         cfg, y, m, day + 1)

\* is the key among p.loadedMonths
includes(months, key) == \E i \in 1 .. Len(months) : months[i] = key

\* loadMonth that keeps two months at most, dropping the earliest
loadMonth_evict(p, cfg, y, m) ==
  IF includes(p.loadedMonths, monthKey(y, m)) THEN p
  ELSE LET p1 == [p EXCEPT !.loadedMonths =
                             Append(IF Len(@) >= 2 THEN Tail(@) ELSE @, monthKey(y, m)),
                           !.dayCells = @ @@ createMonthHTML(p, cfg, y, m)]
           p2 == IF cfg.onDayCreate # "null" THEN triggerDayCreates(p1, cfg, y, m, 1) ELSE p1
       IN triggerMonthChange(p2, cfg, y, m)

\* InfiDatePicker.loadMonth
loadMonth(p, cfg, y, m) ==
  IF includes(p.loadedMonths, monthKey(y, m)) THEN p
  ELSE LET p1 == [p EXCEPT !.loadedMonths = Append(@, monthKey(y, m)),
                           !.dayCells = @ @@ createMonthHTML(p, cfg, y, m)]
           p2 == IF cfg.onDayCreate # "null" THEN triggerDayCreates(p1, cfg, y, m, 1) ELSE p1
       IN triggerMonthChange(p2, cfg, y, m)

\* the loop of InfiDatePicker.loadInitialMonths from its i-th iteration
RECURSIVE loadInitialLoop(_, _, _, _, _)
loadInitialLoop(p, cfg, y, m, i) ==
  IF ~(i < cfg.initialMonths) THEN p
  ELSE LET monthDate == monthOf(y, m + i)
       IN IF yearSet(cfg.maxYear) /\ monthDate[1] > cfg.maxYear THEN p
          ELSE loadInitialLoop(loadMonth(p, cfg, monthDate[1], monthDate[2]), cfg, y, m, i + 1)

\* loadInitialMonths that starts at the current month whatever minYear is
loadInitialMonths_noClamp(p, cfg, clock) ==
  loadInitialLoop(p, cfg, getFullYear(clock), getMonth(clock), 0)

\* InfiDatePicker.loadInitialMonths; clock is this.currentMonth = new Date()
loadInitialMonths(p, cfg, clock) ==
  IF yearSet(cfg.minYear) /\ getFullYear(clock) < cfg.minYear
  THEN loadInitialLoop(p, cfg, cfg.minYear, 0, 0)
  ELSE loadInitialLoop(p, cfg, getFullYear(clock), getMonth(clock), 0)

\* loadMoreMonths that stops only above maxMonths
loadMoreMonths_above(p, cfg) ==
  IF Len(p.loadedMonths) > cfg.maxMonths THEN p
  ELSE IF p.loadedMonths = <<>>
  THEN throw(p)
  ELSE LET ym == splitKey(p.loadedMonths[Len(p.loadedMonths)])
           nextMonth == monthOf(ym[1], ym[2] + 1)
       IN IF yearSet(cfg.maxYear) /\ nextMonth[1] > cfg.maxYear THEN p
          ELSE loadMonth(p, cfg, nextMonth[1], nextMonth[2])

\* InfiDatePicker.loadMoreMonths; with no loaded month, the split of
\* undefined throws a TypeError
loadMoreMonths(p, cfg) ==
  IF Len(p.loadedMonths) >= cfg.maxMonths THEN p
  ELSE IF p.loadedMonths = <<>>
  THEN throw(p)
  ELSE LET ym == splitKey(p.loadedMonths[Len(p.loadedMonths)])
           nextMonth == monthOf(ym[1], ym[2] + 1)
       IN IF yearSet(cfg.maxYear) /\ nextMonth[1] > cfg.maxYear THEN p
          ELSE loadMonth(p, cfg, nextMonth[1], nextMonth[2])

\* ------------------------------------------------------------------ theme
\* the theme names setTheme accepts
Themes == {"light", "dark", "auto"}

\* setTheme without the check of the theme name
setTheme_unchecked(p, theme) ==
  IF p.container = "null" THEN throw(p)
  ELSE [p EXCEPT !.themeClasses = (@ \ Themes) \cup {theme}, !.theme = theme]

\* InfiDatePicker.setTheme
setTheme(p, theme) ==
  IF theme \notin Themes
  THEN [p EXCEPT !.events = @ \o <<[type |-> "warn", cb |-> 0, data |-> <<>>]>>]
  ELSE IF p.container = "null" THEN throw(p)
  ELSE [p EXCEPT !.themeClasses = (@ \ Themes) \cup {theme}, !.theme = theme]

\* closeAfterSelect that closes the inline surface too
closeAfterSelect_inline(p, cfg) ==
  IF cfg.closeOnSelect THEN hide(p, cfg) ELSE p

\* ---------------------------------------------------------------- destroy
\* InfiDatePicker.destroy: the listeners are removed, the container is
\* detached, and the references to the container and to the attached element
\* are cleared
destroy(p, cfg) == [p EXCEPT !.container = "null", !.attachedElement = "null"]

\* the tail of selectDate and handleRangeSelection: close after a selection
closeAfterSelect(p, cfg) ==
  IF cfg.closeOnSelect /\ cfg.displayMode # "inline" THEN hide(p, cfg) ELSE p

\* handleRangeSelection that rejects a range of exactly minRangeDays days
handleRangeSelection_atMost(p, cfg, date) ==
  IF p.selectedStartDate = NULL \/ (p.selectedStartDate # NULL /\ p.selectedEndDate # NULL)
  THEN updateDisplay([p EXCEPT !.selectedStartDate = date, !.selectedEndDate = NULL], cfg)
  ELSE IF date < p.selectedStartDate
  THEN updateDisplay([p EXCEPT !.selectedStartDate = date, !.selectedEndDate = NULL], cfg)
  ELSE LET p1 == [p EXCEPT !.selectedEndDate = date]
           diff == daysDiff(p1.selectedStartDate, p1.selectedEndDate)
       IN IF diff <= cfg.minRangeDays - 1
          THEN [p1 EXCEPT !.selectedStartDate = date, !.selectedEndDate = NULL]
          ELSE IF diff > cfg.maxRangeDays - 1
          THEN [p1 EXCEPT !.selectedStartDate = date, !.selectedEndDate = NULL]
          ELSE updateDisplay(closeAfterSelect(triggerChange(p1, cfg), cfg), cfg)

\* handleRangeSelection that moves the end of a complete range instead of restarting
handleRangeSelection_extend(p, cfg, date) ==
  IF p.selectedStartDate # NULL /\ p.selectedEndDate # NULL /\ date > p.selectedEndDate
  THEN updateDisplay([p EXCEPT !.selectedEndDate = date], cfg)
  ELSE IF p.selectedStartDate = NULL \/ (p.selectedStartDate # NULL /\ p.selectedEndDate # NULL)
  THEN updateDisplay([p EXCEPT !.selectedStartDate = date, !.selectedEndDate = NULL], cfg)
  ELSE IF date < p.selectedStartDate
  THEN updateDisplay([p EXCEPT !.selectedStartDate = date, !.selectedEndDate = NULL], cfg)
  ELSE LET p1 == [p EXCEPT !.selectedEndDate = date]
           diff == daysDiff(p1.selectedStartDate, p1.selectedEndDate)
       IN IF diff < cfg.minRangeDays - 1
          THEN [p1 EXCEPT !.selectedStartDate = date, !.selectedEndDate = NULL]
          ELSE IF diff > cfg.maxRangeDays - 1
          THEN [p1 EXCEPT !.selectedStartDate = date, !.selectedEndDate = NULL]
          ELSE updateDisplay(closeAfterSelect(triggerChange(p1, cfg), cfg), cfg)

\* handleRangeSelection that completes the range backwards when the date precedes the start
handleRangeSelection_swap(p, cfg, date) ==
  IF p.selectedStartDate = NULL \/ (p.selectedStartDate # NULL /\ p.selectedEndDate # NULL)
  THEN updateDisplay([p EXCEPT !.selectedStartDate = date, !.selectedEndDate = NULL], cfg)
  ELSE IF date < p.selectedStartDate
  THEN updateDisplay(
         closeAfterSelect(triggerChange([p EXCEPT !.selectedStartDate = date,
                                                  !.selectedEndDate = p.selectedStartDate], cfg), cfg),
         cfg)
  ELSE LET p1 == [p EXCEPT !.selectedEndDate = date]
           diff == daysDiff(p1.selectedStartDate, p1.selectedEndDate)
       IN IF diff < cfg.minRangeDays - 1
          THEN [p1 EXCEPT !.selectedStartDate = date, !.selectedEndDate = NULL]
          ELSE IF diff > cfg.maxRangeDays - 1
          THEN [p1 EXCEPT !.selectedStartDate = date, !.selectedEndDate = NULL]
          ELSE updateDisplay(closeAfterSelect(triggerChange(p1, cfg), cfg), cfg)

\* handleRangeSelection without the branch for a date that precedes the start
handleRangeSelection_noBefore(p, cfg, date) ==
  IF p.selectedStartDate = NULL \/ (p.selectedStartDate # NULL /\ p.selectedEndDate # NULL)
  THEN updateDisplay([p EXCEPT !.selectedStartDate = date, !.selectedEndDate = NULL], cfg)
  ELSE LET p1 == [p EXCEPT !.selectedEndDate = date]
           diff == daysDiff(p1.selectedStartDate, p1.selectedEndDate)
       IN IF diff < cfg.minRangeDays - 1
          THEN [p1 EXCEPT !.selectedStartDate = date, !.selectedEndDate = NULL]
          ELSE IF diff > cfg.maxRangeDays - 1
          THEN [p1 EXCEPT !.selectedStartDate = date, !.selectedEndDate = NULL]
          ELSE updateDisplay(closeAfterSelect(triggerChange(p1, cfg), cfg), cfg)

\* handleRangeSelection that reads minRangeDays as a number of nights
handleRangeSelection_nights(p, cfg, date) ==
  IF p.selectedStartDate = NULL \/ (p.selectedStartDate # NULL /\ p.selectedEndDate # NULL)
  THEN updateDisplay([p EXCEPT !.selectedStartDate = date, !.selectedEndDate = NULL], cfg)
  ELSE IF date < p.selectedStartDate
  THEN updateDisplay([p EXCEPT !.selectedStartDate = date, !.selectedEndDate = NULL], cfg)
  ELSE LET p1 == [p EXCEPT !.selectedEndDate = date]
           diff == daysDiff(p1.selectedStartDate, p1.selectedEndDate)
       IN IF diff < cfg.minRangeDays
          THEN [p1 EXCEPT !.selectedStartDate = date, !.selectedEndDate = NULL]
          ELSE IF diff > cfg.maxRangeDays - 1
          THEN [p1 EXCEPT !.selectedStartDate = date, !.selectedEndDate = NULL]
          ELSE updateDisplay(closeAfterSelect(triggerChange(p1, cfg), cfg), cfg)

\* handleRangeSelection without the maxRangeDays check
handleRangeSelection_noMax(p, cfg, date) ==
  IF p.selectedStartDate = NULL \/ (p.selectedStartDate # NULL /\ p.selectedEndDate # NULL)
  THEN updateDisplay([p EXCEPT !.selectedStartDate = date, !.selectedEndDate = NULL], cfg)
  ELSE IF date < p.selectedStartDate
  THEN updateDisplay([p EXCEPT !.selectedStartDate = date, !.selectedEndDate = NULL], cfg)
  ELSE LET p1 == [p EXCEPT !.selectedEndDate = date]
           diff == daysDiff(p1.selectedStartDate, p1.selectedEndDate)
       IN IF diff < cfg.minRangeDays - 1
          THEN [p1 EXCEPT !.selectedStartDate = date, !.selectedEndDate = NULL]
          ELSE IF FALSE
          THEN [p1 EXCEPT !.selectedStartDate = date, !.selectedEndDate = NULL]
          ELSE updateDisplay(closeAfterSelect(triggerChange(p1, cfg), cfg), cfg)

\* InfiDatePicker.handleRangeSelection
handleRangeSelection(p, cfg, date) ==
  IF p.selectedStartDate = NULL \/ (p.selectedStartDate # NULL /\ p.selectedEndDate # NULL)
  THEN updateDisplay([p EXCEPT !.selectedStartDate = date, !.selectedEndDate = NULL], cfg)
  ELSE IF date < p.selectedStartDate
  THEN updateDisplay([p EXCEPT !.selectedStartDate = date, !.selectedEndDate = NULL], cfg)
  ELSE LET p1 == [p EXCEPT !.selectedEndDate = date]
           diff == daysDiff(p1.selectedStartDate, p1.selectedEndDate)
       IN IF diff < cfg.minRangeDays - 1
          THEN [p1 EXCEPT !.selectedStartDate = date, !.selectedEndDate = NULL]
          ELSE IF diff > cfg.maxRangeDays - 1
          THEN [p1 EXCEPT !.selectedStartDate = date, !.selectedEndDate = NULL]
          ELSE updateDisplay(closeAfterSelect(triggerChange(p1, cfg), cfg), cfg)

\* selectDate without its isDateDisabled guard
selectDate_unguarded(p, cfg, clock, date) ==
  IF p.mode = "single"
  THEN closeAfterSelect(triggerChange(updateDisplay([p EXCEPT !.selectedDate = date], cfg), cfg), cfg)
  ELSE handleRangeSelection(p, cfg, date)

\* selectDate that notifies only when the selected date changes
selectDate_dedup(p, cfg, clock, date) ==
  IF isDateDisabled(date, cfg, clock) THEN p
  ELSE IF p.mode = "single"
  THEN IF p.selectedDate = date THEN closeAfterSelect(p, cfg)
       ELSE closeAfterSelect(triggerChange(updateDisplay([p EXCEPT !.selectedDate = date], cfg), cfg), cfg)
  ELSE handleRangeSelection(p, cfg, date)

\* InfiDatePicker.selectDate
selectDate(p, cfg, clock, date) ==
  IF isDateDisabled(date, cfg, clock) THEN p
  ELSE IF p.mode = "single"
  THEN closeAfterSelect(triggerChange(updateDisplay([p EXCEPT !.selectedDate = date], cfg), cfg), cfg)
  ELSE handleRangeSelection(p, cfg, date)

\* switchMode that resets the range fields only
switchMode_keepSingle(p, cfg, newMode) ==
  IF newMode = p.mode THEN p
  ELSE updateDisplay([p EXCEPT !.mode = newMode,
                               !.selectedStartDate = NULL, !.selectedEndDate = NULL],
                     cfg)

\* switchMode that carries the selected date over as the start of the range
switchMode_carry(p, cfg, newMode) ==
  IF newMode = p.mode THEN p
  ELSE updateDisplay([p EXCEPT !.mode = newMode, !.selectedDate = NULL,
                               !.selectedStartDate = p.selectedDate, !.selectedEndDate = NULL],
                     cfg)

\* InfiDatePicker.switchMode
switchMode(p, cfg, newMode) ==
  IF newMode = p.mode THEN p
  ELSE updateDisplay([p EXCEPT !.mode = newMode, !.selectedDate = NULL,
                               !.selectedStartDate = NULL, !.selectedEndDate = NULL],
                     cfg)

\* --------------------------------------------------------- configurations
\* the values (minRangeDays, maxRangeDays) takes: the defaults, a minimum
\* of two days, and a maximum of two days
RangeLimits ==
  {[minRangeDays |-> 1, maxRangeDays |-> 365],
   [minRangeDays |-> 2, maxRangeDays |-> 365],
   [minRangeDays |-> 1, maxRangeDays |-> 2]}

\* a hook (config.onChange, onOpen, onClose) is null, a function or an array
\* of functions; the values (displayMode, closeOnSelect, onChange) takes
Surfaces ==
  {[displayMode |-> "inline", closeOnSelect |-> TRUE, onChange |-> "fn"],
   [displayMode |-> "dropdown", closeOnSelect |-> TRUE, onChange |-> "fn"],
   [displayMode |-> "dropdown", closeOnSelect |-> FALSE, onChange |-> "array"],
   [displayMode |-> "modal", closeOnSelect |-> TRUE, onChange |-> "array"],
   [displayMode |-> "modal", closeOnSelect |-> FALSE, onChange |-> "null"]}

\* the values (mode, defaultToToday) takes; defaultToToday is read in
\* Single mode only
Starts ==
  {[mode |-> "single", defaultToToday |-> TRUE],
   [mode |-> "single", defaultToToday |-> FALSE],
   [mode |-> "range", defaultToToday |-> TRUE]}

\* the mode values a caller may pass to switchMode
ModeArgs == {"single", "range", "multi"}

Configs ==
  {[mode |-> st.mode, displayMode |-> sf.displayMode, closeOnSelect |-> sf.closeOnSelect,
    minRangeDays |-> rl.minRangeDays, maxRangeDays |-> rl.maxRangeDays,
    minDate |-> rc.minDate, maxDate |-> rc.maxDate,
    disable |-> rc.disable, enable |-> rc.enable,
    defaultToToday |-> st.defaultToToday,
    onChange |-> sf.onChange, onOpen |-> "fn", onClose |-> "fn",
    theme |-> "auto", minYear |-> NULL, maxYear |-> NULL,
    initialMonths |-> 2, maxMonths |-> 3,
    onMonthChange |-> "null", onYearChange |-> "null", onDayCreate |-> "null",
    attachTo |-> "null"] :
     st \in Starts, sf \in Surfaces, rl \in RangeLimits, rc \in RuleConfigs}

\* ------------------------------------------------------------ construction
\* the instance fields set by the constructor before init()
\* on a host with the given clock and UTC offset
fresh(cfg, clock, offset) ==
  [isOpen |-> FALSE, selectedDate |-> NULL, selectedStartDate |-> NULL,
   selectedEndDate |-> NULL, mode |-> cfg.mode, theme |-> cfg.theme,
   loadedMonths |-> <<>>, themeClasses |-> {},
   container |-> "null", attachedElement |-> "null",
   dayCells |-> [c \in {} |-> {}], inputValue |-> <<>>,
   now |-> clock, utcOffset |-> offset, events |-> <<>>]

\* InfiDatePicker.createContainer: the container with its theme class, then
\* createCalendar, which loads the initial months
createContainer(p, cfg, clock) ==
  loadInitialMonths([p EXCEPT !.container = "element", !.themeClasses = {cfg.theme}],
                    cfg, clock)

\* InfiDatePicker.init: an inline picker is shown at once
showInline(p, cfg) == IF cfg.displayMode = "inline" THEN show(p, cfg) ELSE p

\* selectToday that ignores config.defaultToToday
selectToday_always(p, cfg, clock) ==
  IF cfg.mode = "single"
  THEN selectDate(p, cfg, clock, clock)
  ELSE p

\* InfiDatePicker.init: a single-date picker selects today by default
selectToday(p, cfg, clock) ==
  IF cfg.defaultToToday /\ cfg.mode = "single"
  THEN selectDate(p, cfg, clock, clock)
  ELSE p

\* InfiDatePicker.init, called by the constructor
init(cfg, clock, offset) ==
  selectToday(
    showInline(
      createContainer([fresh(cfg, clock, offset) EXCEPT !.attachedElement = cfg.attachTo],
                      cfg, clock),
      cfg),
    cfg, clock)

\* the variables after an operation that leaves the instance as p
becomes(p) ==
  /\ config' = [config EXCEPT !.mode = p.mode, !.theme = p.theme]
  /\ loadedMonths' = p.loadedMonths
  /\ themeClasses' = p.themeClasses
  /\ container' = p.container
  /\ attachedElement' = p.attachedElement
  /\ dayCells' = p.dayCells
  /\ inputValue' = p.inputValue
  /\ isOpen' = p.isOpen
  /\ selectedDate' = p.selectedDate
  /\ selectedStartDate' = p.selectedStartDate
  /\ selectedEndDate' = p.selectedEndDate
  /\ events' = p.events

\* the state of the selection state machine
stateKind ==
  IF config.mode = "single"
  THEN IF selectedDate = NULL THEN "Empty" ELSE "SingleSelected"
  ELSE IF selectedStartDate = NULL THEN "Empty"
  ELSE IF selectedEndDate = NULL THEN "RangeStartOnly"
  ELSE "RangeComplete"

\* what is remembered of an operation: its name, its arguments, the state
\* it was called in, and whether its date argument precedes the range start
\* it was called with
called(op, date, mode) ==
  [op |-> op, date |-> date, mode |-> mode, from |-> stateKind,
   before |-> date # NULL /\ selectedStartDate # NULL /\ date < selectedStartDate]

\* the variables hold the instance p
holds(p) ==
  /\ isOpen = p.isOpen
  /\ selectedDate = p.selectedDate
  /\ selectedStartDate = p.selectedStartDate
  /\ selectedEndDate = p.selectedEndDate
  /\ loadedMonths = p.loadedMonths
  /\ themeClasses = p.themeClasses
  /\ container = p.container
  /\ attachedElement = p.attachedElement
  /\ dayCells = p.dayCells
  /\ inputValue = p.inputValue
  /\ events = p.events

\* new InfiDatePicker(config) for a configuration of the set cfgs, on a
\* host whose UTC offset is one of offsets
constructedOn(cfgs, offsets) ==
  /\ now = TicksPerDay
  /\ utcOffset \in offsets
  /\ config \in cfgs
  /\ holds(init(config, now, utcOffset))
  /\ last = [op |-> "new", date |-> NULL, mode |-> "", from |-> "Empty", before |-> FALSE]

\* new InfiDatePicker(config) on a host at UTC
constructed(cfgs) == constructedOn(cfgs, {0})

Init == constructed(Configs)

\* ---------------------------------------------------------------- actions
\* picker.selectDate(date), also reached from the click and key handlers
SelectDate ==
  \E date \in Dates :
    /\ becomes(selectDate(picker, config, now, date))
    /\ last' = called("selectDate", date, "")
    /\ UNCHANGED <<now, utcOffset>>

\* picker.switchMode(newMode), also reached from the mode buttons
SwitchMode ==
  \E newMode \in ModeArgs :
    /\ becomes(switchMode(picker, config, newMode))
    /\ last' = called("switchMode", NULL, newMode)
    /\ UNCHANGED <<now, utcOffset>>

\* picker.show()
Show ==
  /\ becomes(show(picker, config))
  /\ last' = called("show", NULL, "")
  /\ UNCHANGED <<now, utcOffset>>

\* picker.hide()
Hide ==
  /\ becomes(hide(picker, config))
  /\ last' = called("hide", NULL, "")
  /\ UNCHANGED <<now, utcOffset>>

\* time passes on the host clock
Tick ==
  /\ now < TicksPerDay + ClockSteps
  /\ now' = now + 1
  /\ events' = <<>>
  /\ last' = called("tick", NULL, "")
  /\ UNCHANGED <<config, isOpen, selectedDate, selectedStartDate, selectedEndDate,
                 loadedMonths, themeClasses, container, attachedElement, dayCells,
                 inputValue, utcOffset>>

Next == SelectDate \/ SwitchMode \/ Show \/ Hide \/ Tick

Spec == Init /\ [][Next]_vars

\* ---------------------------------------------------- the theme setter
\* the values handed to setTheme
ThemeArgs == {"light", "dark", "auto", "blue"}

\* the configurations without date rules
PlainConfigs ==
  {k \in Configs : /\ k.minDate = InNull /\ k.maxDate = InNull
                   /\ k.enable.isNull /\ k.disable.rules = <<>>
                   /\ k.minRangeDays = 1 /\ k.maxRangeDays = 365}

\* the configurations without date rules, with every initial theme
ThemeConfigs ==
  {[c EXCEPT !.theme = t] : c \in PlainConfigs, t \in {"auto", "light", "blue"}}

InitTheme == constructed(ThemeConfigs)

SetTheme ==
  \E theme \in ThemeArgs :
    /\ becomes(setTheme(picker, theme))
    /\ last' = called("setTheme", NULL, theme)
    /\ UNCHANGED <<now, utcOffset>>

NextTheme == SetTheme \/ Show \/ Hide

SpecTheme == InitTheme /\ [][NextTheme]_vars

\* ------------------------------------------------------- the year bounds
\* config.minYear and config.maxYear: unset, or a year before, of or after
\* the year of the window
YearConfigs ==
  {[c EXCEPT !.minYear = lo, !.maxYear = hi] :
     c \in PlainConfigs,
     lo \in {NULL, EpochYear, EpochYear + 1},
     hi \in {NULL, EpochYear - 1, EpochYear}}

InitYears == constructed(YearConfigs)

NextYears == SelectDate \/ Show \/ Hide

SpecYears == InitYears /\ [][NextYears]_vars

\* ------------------------------------------------------------ pagination
\* the largest config.initialMonths and config.maxMonths
MaxInitialMonths == 3
MaxMaxMonths == 4

\* the configurations of the pagination: the window sizes, the year bounds
\* around the year of the clock, and the month and day callbacks
PagerConfigs ==
  {[c EXCEPT !.initialMonths = im, !.maxMonths = mm, !.minYear = lo, !.maxYear = hi,
             !.onMonthChange = cb[1], !.onYearChange = cb[1], !.onDayCreate = cb[2]] :
     c \in {k \in PlainConfigs : k.mode = "range" /\ k.displayMode = "dropdown"},
     im \in 0 .. MaxInitialMonths,
     mm \in 0 .. MaxMaxMonths,
     lo \in {NULL, EpochYear, EpochYear + 1},
     hi \in {NULL, EpochYear - 1, EpochYear, EpochYear + 1},
     cb \in {<<"null", "null">>, <<"fn", "null">>, <<"array", "fn">>}}

InitPager == constructed(PagerConfigs)

\* the scroll handler's call of loadMoreMonths
LoadMoreMonths ==
  /\ becomes(loadMoreMonths(picker, config))
  /\ last' = called("loadMoreMonths", NULL, "")
  /\ UNCHANGED <<now, utcOffset>>

NextPager == LoadMoreMonths \/ Show \/ Hide

SpecPager == InitPager /\ [][NextPager]_vars

\* ------------------------------------------------------------- life cycle
\* the configurations of the life cycle: a Single-mode and a Range-mode
\* dropdown that closes on selection, without date rules, with a function
\* for every callback
LifeConfigs ==
  {[c EXCEPT !.onMonthChange = "fn", !.onDayCreate = "fn"] :
     c \in {k \in PlainConfigs :
              k.displayMode = "dropdown" /\ k.closeOnSelect /\ k.defaultToToday}}

InitLife == constructed(LifeConfigs)

\* picker.destroy()
Destroy ==
  /\ becomes(destroy(picker, config))
  /\ last' = called("destroy", NULL, "")
  /\ UNCHANGED <<now, utcOffset>>

NextLife ==
  SelectDate \/ SwitchMode \/ Show \/ Hide \/ SetTheme \/ LoadMoreMonths \/ Destroy

SpecLife == InitLife /\ [][NextLife]_vars

\* ------------------------------------------------------------- properties
isChange(e) == e.type = "change"

\* the onChange callbacks the last operation invoked, in order
changes(evs) == SelectSeq(evs, isChange)

\* one change notification: every configured onChange callback invoked
\* once, in order, with the same payload
oneChange(evs) ==
  /\ Len(changes(evs)) = callbacks(config.onChange)
  /\ \A i \in 1 .. Len(changes(evs)) :
       changes(evs)[i].cb = i /\ changes(evs)[i].data = changes(evs)[1].data

\* C1: selectDate of a disabled candidate changes neither the selection
\* nor isOpen and invokes no callback, whatever the mode
C1_DisabledRejected ==
  [][(last'.op = "selectDate" /\ isDateDisabled(last'.date, config, now))
       => /\ selectedDate' = selectedDate
          /\ selectedStartDate' = selectedStartDate
          /\ selectedEndDate' = selectedEndDate
          /\ isOpen' = isOpen
          /\ events' = <<>>]_vars

\* a disabled candidate was rejected in Range mode while a start was selected
C1_Witness ==
  /\ last.op = "selectDate"
  /\ isDateDisabled(last.date, config, now)
  /\ config.mode = "range"
  /\ selectedStartDate # NULL

\* C2: in Single mode, selectDate of a candidate that is not disabled leaves
\* selectedDate = candidate and fires one change notification whose payload
\* has date = candidate and iso = the ISO day of the candidate
C2_SingleSelect ==
  (last.op = "selectDate" /\ config.mode = "single"
     /\ ~isDateDisabled(last.date, config, now))
    => /\ selectedDate = last.date
       /\ oneChange(events)
       /\ \A i \in 1 .. Len(changes(events)) :
            /\ changes(events)[i].data.date = last.date
            /\ changes(events)[i].data.iso = iso(last.date)

\* a date was selected, and notified, while a date was already selected
C2_Witness ==
  /\ last.op = "selectDate"
  /\ last.from = "SingleSelected"
  /\ config.mode = "single"
  /\ config.onChange = "fn"
  /\ selectedDate = last.date
  /\ Len(changes(events)) = 1
  /\ changes(events)[1].data.iso = Nov27

\* the preconditions of a selectDate step whose candidate is accepted as
\* not disabled, in Range mode with a start and no end
rangeStartOnlyStep ==
  /\ last'.op = "selectDate"
  /\ config.mode = "range"
  /\ selectedStartDate # NULL
  /\ selectedEndDate = NULL
  /\ ~isDateDisabled(last'.date, config, now)

\* one change notification with the payload of the range start .. end
rangeNotified(evs, start, end, nights) ==
  /\ oneChange(evs)
  /\ \A i \in 1 .. Len(changes(evs)) :
       /\ changes(evs)[i].data.start = start
       /\ changes(evs)[i].data.end = end
       /\ changes(evs)[i].data.nights = nights
       /\ changes(evs)[i].data.days = nights + 1

C4_RangeRestart ==
  (last.op = "selectDate" /\ config.mode = "range"
     /\ last.from \in {"Empty", "RangeComplete"}
     /\ ~isDateDisabled(last.date, config, now))
    => /\ selectedStartDate = last.date
       /\ selectedEndDate = NULL
       /\ changes(events) = <<>>

\* the click after a completed range started a fresh range
C4_Witness ==
  /\ last.op = "selectDate" /\ last.from = "RangeComplete"
  /\ config.mode = "range"
  /\ ~isDateDisabled(last.date, config, now)
  /\ selectedStartDate = last.date
  /\ selectedEndDate = NULL

\* C5: in Range mode with a start and no end, a candidate earlier than the
\* start replaces the start, whatever the range limits; the end stays empty
\* and no onChange callback is invoked
C5_EarlierReplacesStart ==
  [][(rangeStartOnlyStep /\ last'.date < selectedStartDate)
       => /\ selectedStartDate' = last'.date
          /\ selectedEndDate' = NULL
          /\ changes(events') = <<>>]_vars

\* a candidate earlier than the start replaced it, under limits that forbid
\* one-day ranges
C5_Witness ==
  /\ last.op = "selectDate" /\ last.from = "RangeStartOnly" /\ last.before
  /\ config.mode = "range" /\ config.minRangeDays = 2
  /\ ~isDateDisabled(last.date, config, now)
  /\ selectedStartDate = last.date
  /\ selectedEndDate = NULL

\* C6: when start and end are both set, start <= end; end is empty whenever
\* start is empty
C6_RangeOrdered ==
  /\ (selectedStartDate # NULL /\ selectedEndDate # NULL) => selectedStartDate <= selectedEndDate
  /\ selectedStartDate = NULL => selectedEndDate = NULL

\* a complete range whose start and end fall on one calendar day, at
\* different times of day
C6_Witness ==
  /\ selectedStartDate # NULL /\ selectedEndDate # NULL
  /\ selectedStartDate < selectedEndDate
  /\ dayOf(selectedStartDate) = dayOf(selectedEndDate)

\* a selectDate step in Range mode with minRangeDays = 2, from a start and
\* no end, whose candidate lies the given number of whole days after the start
scenarioStep(daysLater) ==
  /\ rangeStartOnlyStep
  /\ config.minRangeDays = 2
  /\ last'.date = selectedStartDate + daysLater * TicksPerDay

C8_RangePayload ==
  config.mode = "range"
    => \A i \in 1 .. Len(changes(events)) :
         LET data == changes(events)[i].data
         IN /\ data.start # NULL
            /\ data.end # NULL
            /\ selectedEndDate # NULL
            /\ data.nights = daysDiff(data.start, data.end)
            /\ data.nights >= 0
            /\ data.days = data.nights + 1
            /\ config.minRangeDays <= data.days
            /\ data.days <= config.maxRangeDays

\* a range of exactly maxRangeDays = 2 days was notified
C8_Witness ==
  /\ config.mode = "range" /\ config.maxRangeDays = 2
  /\ changes(events) # <<>>
  /\ changes(events)[1].data.days = 2
  /\ changes(events)[1].data.end = selectedEndDate

\* C9, as claimed: after switchMode('single') or switchMode('range') the
\* three selection fields are empty and no onChange callback was invoked
C9_SwitchAlwaysClears ==
  (last.op = "switchMode" /\ last.mode \in {"single", "range"})
    => /\ selectedDate = NULL
       /\ selectedStartDate = NULL
       /\ selectedEndDate = NULL
       /\ changes(events) = <<>>

\* C9, amended: switchMode to the other of 'single' and 'range' empties the
\* three selection fields; switchMode to the current mode leaves them as
\* they are; neither invokes a callback
C9_SwitchClearsOnChange ==
  [][(last'.op = "switchMode" /\ last'.mode \in {"single", "range"})
       => /\ events' = <<>>
          /\ IF last'.mode # config.mode
             THEN /\ selectedDate' = NULL
                  /\ selectedStartDate' = NULL
                  /\ selectedEndDate' = NULL
             ELSE /\ selectedDate' = selectedDate
                  /\ selectedStartDate' = selectedStartDate
                  /\ selectedEndDate' = selectedEndDate]_vars

\* a complete range was cleared by a switch to Single mode
C9_Witness ==
  /\ last.op = "switchMode" /\ last.mode = "single" /\ last.from = "RangeComplete"
  /\ config.mode = "single"
  /\ selectedDate = NULL /\ selectedStartDate = NULL /\ selectedEndDate = NULL

\* C10: switchMode with a value that is neither 'single' nor 'range' leaves
\* config.mode and the three selection fields unchanged
C10_InvalidModeRejected ==
  [][(last'.op = "switchMode" /\ last'.mode \notin {"single", "range"})
       => /\ config'.mode = config.mode
          /\ selectedDate' = selectedDate
          /\ selectedStartDate' = selectedStartDate
          /\ selectedEndDate' = selectedEndDate]_vars

\* C11: setTheme called with a value outside {light, dark, auto} leaves
\* config.theme and the theme classes of the container unchanged; called with
\* one of the three values it sets config.theme to that value.
C11_SetTheme ==
  [][last'.op = "setTheme"
       => IF last'.mode \in {"light", "dark", "auto"}
          THEN config'.theme = last'.mode
          ELSE config'.theme = config.theme /\ themeClasses' = themeClasses]_vars

\* 'blue' was refused on a picker whose theme an earlier call had set to dark
C11_Witness ==
  /\ last.op = "setTheme" /\ last.mode = "blue"
  /\ config.theme = "dark"
  /\ themeClasses = {"dark"}
  /\ \E i \in 1 .. Len(events) : events[i].type = "warn"
\* the indices of the callbacks of one type among the events of an operation
indices(evs, type) == {i \in 1 .. Len(evs) : evs[i].type = type}

\* a selectDate step that is accepted and reaches its change notification:
\* a Single-mode selection, or a Range-mode end that completes the range
notifyingStep ==
  /\ last'.op = "selectDate"
  /\ ~isDateDisabled(last'.date, config, now)
  /\ \/ config.mode = "single"
     \/ config.mode = "range" /\ selectedStartDate # NULL /\ selectedEndDate = NULL
          /\ selectedEndDate' # NULL

\* C12: in a selectDate step every onChange callback runs before every
\* onClose callback, and onClose runs only after onChange has (when onChange
\* is configured); an accepted, notifying selection leaves an open picker
\* closed iff closeOnSelect is true and displayMode is not 'inline'; a
\* Range-mode click that leaves only a start never closes the picker.
C12_CloseAfterChange ==
  [][/\ last'.op = "selectDate"
         => /\ \A i \in indices(events', "change") :
                 \A j \in indices(events', "close") : i < j
            /\ (indices(events', "close") # {} /\ config.onChange # "null")
                 => indices(events', "change") # {}
     /\ (notifyingStep /\ isOpen)
         => /\ ~isOpen' <=> (config.closeOnSelect /\ config.displayMode # "inline")
            /\ ~isOpen' <=> indices(events', "close") # {}
     /\ (last'.op = "selectDate" /\ config.mode = "range" /\ selectedEndDate' = NULL)
         => isOpen' = isOpen /\ indices(events', "close") = {}]_vars

\* a selection on an open dropdown fired onChange and then onClose and
\* closed the picker
C12_Witness ==
  /\ last.op = "selectDate"
  /\ ~isOpen
  /\ config.displayMode = "dropdown" /\ config.closeOnSelect
  /\ Len(events) = 2
  /\ events[1].type = "change" /\ events[2].type = "close"
\* the selection and the open flag are as before the step, nothing notified
nothingDone ==
  /\ UNCHANGED <<selectedDate, selectedStartDate, selectedEndDate, isOpen>>
  /\ events' = <<>>

\* C13: when config.enable is a non-null array (the empty array included),
\* a date that matches none of its rules is disabled whatever config.disable
\* holds, and selectDate of it is rejected.
C13_WhitelistPrecedence ==
  [][(/\ last'.op = "selectDate"
      /\ ~config.enable.isNull
      /\ \A i \in 1 .. Len(config.enable.rules) :
            ~ruleMatches(last'.date, config.enable.rules[i], now))
       => isDateDisabled(last'.date, config, now) /\ nothingDone]_vars

\* selectDate of a date was refused under an empty whitelist, on a picker
\* with no other date rule
C13_Witness ==
  /\ last.op = "selectDate"
  /\ ~config.enable.isNull /\ config.enable.rules = <<>>
  /\ config.disable.rules = <<>> /\ config.minDate = InNull /\ config.maxDate = InNull
  /\ selectedDate = NULL /\ selectedStartDate = NULL
  /\ events = <<>>

\* C14: with an empty blacklist and no whitelist (enable = null) the rule
\* evaluator reports every date as not disabled.
C14_NoRulesNoneDisabled ==
  (config.disable = List(<<>>) /\ config.enable = NoList)
    => \A d \in Dates :
         /\ ~Utils_isDateDisabled(d, config.disable, now)
         /\ Utils_isDateEnabled(d, config.enable, now)

\* a date was selected on a picker with an empty blacklist, no whitelist and
\* no date bounds
C14_Witness ==
  /\ last.op = "selectDate"
  /\ config.disable = List(<<>>) /\ config.enable = NoList
  /\ config.minDate = InNull /\ config.maxDate = InNull
  /\ config.mode = "single"
  /\ selectedDate = last.date
\* the year of the date is below config.minYear or above config.maxYear
outsideYears(date) ==
  \/ config.minYear # NULL /\ getFullYear(date) < config.minYear
  \/ config.maxYear # NULL /\ getFullYear(date) > config.maxYear

\* C15: when minYear or maxYear is configured, a date whose year is below
\* minYear or above maxYear is disabled, and selectDate of it changes nothing
\* and notifies nothing, whatever the rule lists hold.
C15_YearBoundsEnforced ==
  [][(last'.op = "selectDate" /\ outsideYears(last'.date))
       => isDateDisabled(last'.date, config, now) /\ nothingDone]_vars
\* C16: the minDate / maxDate check works on calendar days: a candidate on
\* the calendar day of minDate (of maxDate) is not disabled by that bound,
\* whatever the times of day of the candidate and of the bound.
C16_BoundsByCalendarDay ==
  \A d \in Dates :
    /\ (/\ truthy(config.minDate)
        /\ parseDate(config.minDate, now) # NULL
        /\ isSameDay(d, parseDate(config.minDate, now)))
         => ~belowMinDate(d, config, now)
    /\ (/\ truthy(config.maxDate)
        /\ parseDate(config.maxDate, now) # NULL
        /\ isSameDay(d, parseDate(config.maxDate, now)))
         => ~aboveMaxDate(d, config, now)
\* <<year, month>> of the i-th loaded month
loaded(months, i) == splitKey(months[i])

\* the calendar month n months after the month ym = <<year, month>>
monthsAfter(ym, n) == <<(ym[1] * 12 + ym[2] + n) \div 12, (ym[1] * 12 + ym[2] + n) % 12>>

\* C17: loadedMonths is duplicate-free, ordered from earliest to latest and
\* contiguous: each element is the calendar month that follows its
\* predecessor, January of the next year after December.
C17_MonthsContiguous ==
  /\ \A i, j \in 1 .. Len(loadedMonths) : i # j => loadedMonths[i] # loadedMonths[j]
  /\ \A i \in 1 .. Len(loadedMonths) - 1 :
       /\ loaded(loadedMonths, i)[1] * 12 + loaded(loadedMonths, i)[2]
            < loaded(loadedMonths, i + 1)[1] * 12 + loaded(loadedMonths, i + 1)[2]
       /\ loaded(loadedMonths, i + 1) =
            IF loaded(loadedMonths, i)[2] = 11
            THEN <<loaded(loadedMonths, i)[1] + 1, 0>>
            ELSE <<loaded(loadedMonths, i)[1], loaded(loadedMonths, i)[2] + 1>>

\* loadMoreMonths has appended January 2026 to November and December 2025
C17_Witness ==
  /\ last.op = "loadMoreMonths"
  /\ Len(loadedMonths) = 3
  /\ loaded(loadedMonths, 1) = <<2025, 10>>
  /\ loaded(loadedMonths, 2) = <<2025, 11>>
  /\ loaded(loadedMonths, 3) = <<2026, 0>>
  /\ events # <<>>

\* C18: in every state, whatever initialMonths and maxMonths are, at most
\* maxMonths months are loaded.
C18_AtMostMaxMonths == Len(loadedMonths) <= config.maxMonths
\* the month of the clock: the anchor of the initial window
anchorMonth == <<getFullYear(now), getMonth(now)>>

\* the month keys of the n consecutive months from the month ym, as
\* <<year, month>> pairs
consecutive(months, ym) ==
  \A i \in 1 .. Len(months) : loaded(months, i) = monthsAfter(ym, i - 1)

\* the scenario: initialMonths = 2, maxMonths = 3, no year bounds
scenarioPager ==
  /\ config.initialMonths = 2 /\ config.maxMonths = 3
  /\ config.minYear = NULL /\ config.maxYear = NULL

\* C19: loadMoreMonths appends exactly the month that follows the last
\* loaded month, and appends nothing when the loaded count has reached
\* maxMonths or when the year of that month exceeds maxYear; with
\* initialMonths = 2 and maxMonths = 3 from month M, the first call leaves
\* M, M+1, M+2 loaded and every later call loads nothing.
C19_LoadNext ==
  [][last'.op = "loadMoreMonths"
       => /\ loadedMonths # <<>>
               => LET n == Len(loadedMonths)
                      next == monthsAfter(loaded(loadedMonths, n), 1)
                  IN IF \/ n >= config.maxMonths
                        \/ config.maxYear # NULL /\ next[1] > config.maxYear
                     THEN loadedMonths' = loadedMonths
                     ELSE /\ Len(loadedMonths') = n + 1
                          /\ SubSeq(loadedMonths', 1, n) = loadedMonths
                          /\ loaded(loadedMonths', n + 1) = next
          /\ loadedMonths = <<>> => loadedMonths' = <<>>
          /\ scenarioPager
               => /\ Len(loadedMonths') = 3
                  /\ consecutive(loadedMonths', anchorMonth)
                  /\ last.op = "new" => Len(loadedMonths) = 2
                  /\ last.op = "loadMoreMonths" => loadedMonths' = loadedMonths]_vars

\* in the scenario, a call of loadMoreMonths after the one that loaded M+2
\* has loaded nothing
C19_Witness ==
  /\ scenarioPager
  /\ config.onMonthChange = "fn"
  /\ last.op = "loadMoreMonths"
  /\ Len(loadedMonths) = 3
  /\ loaded(loadedMonths, 3) = monthsAfter(anchorMonth, 2)
  /\ events = <<>>

\* the first month of the initial window
windowStart ==
  IF config.minYear # NULL /\ anchorMonth[1] < config.minYear
  THEN <<config.minYear, 0>>
  ELSE anchorMonth

\* C20: the initial window starts at the anchor month, or at January of
\* minYear when the year of the anchor is below minYear, and is
\* initialMonths consecutive months cut at the first month whose year exceeds
\* maxYear; in every state every loaded month has a year within
\* [minYear, maxYear] when those bounds are set.
C20_InitialWindow ==
  /\ last.op = "new"
       => /\ consecutive(loadedMonths, windowStart)
          /\ Len(loadedMonths) <= config.initialMonths
          /\ Len(loadedMonths) < config.initialMonths
               => /\ config.maxYear # NULL
                  /\ monthsAfter(windowStart, Len(loadedMonths))[1] > config.maxYear
  /\ \A i \in 1 .. Len(loadedMonths) :
       /\ config.minYear # NULL => loaded(loadedMonths, i)[1] >= config.minYear
       /\ config.maxYear # NULL => loaded(loadedMonths, i)[1] <= config.maxYear

\* a picker constructed in 2025 with minYear 2026 has loaded the months
\* from January 2026
C20_Witness ==
  /\ last.op = "new"
  /\ config.minYear = 2026 /\ config.maxYear = 2026
  /\ config.initialMonths = 3
  /\ Len(loadedMonths) = 3
  /\ loaded(loadedMonths, 1) = <<2026, 0>>
\* the sequence s is a prefix of the sequence t
isPrefix(s, t) == Len(s) <= Len(t) /\ SubSeq(t, 1, Len(s)) = s

\* C21: across loadMoreMonths, selectDate, switchMode, show, hide, setTheme
\* (and destroy) the loadedMonths of the earlier state is a prefix of the
\* loadedMonths of the later state, and only loadMoreMonths extends it.
C21_ForwardOnly ==
  [][/\ isPrefix(loadedMonths, loadedMonths')
     /\ loadedMonths' # loadedMonths => last'.op = "loadMoreMonths"]_vars

\* a mode switch has kept the three months loaded by the constructor and by
\* loadMoreMonths
C21_Witness ==
  /\ last.op = "switchMode"
  /\ config.initialMonths = 2
  /\ Len(loadedMonths) = 3
  /\ selectedDate = NULL /\ selectedStartDate = NULL
\* C22: whenever an operation notifies a change, the onChange hook's
\* functions (the whole list, or the single function) are each invoked
\* exactly once, in list order, all with the same payload
C22_EveryHandlerOnce ==
  [][changes(events') # <<>>
       => /\ Len(changes(events')) = callbacks(config'.onChange)
          /\ \A i \in 1 .. Len(changes(events')) :
               /\ changes(events')[i].cb = i
               /\ changes(events')[i].data = getChangeData(picker')]_vars

\* a single selection notified every function of an onChange list
C22_Witness ==
  /\ config.onChange = "array" /\ config.mode = "single"
  /\ last.op = "selectDate" /\ selectedDate = last.date
  /\ Len(changes(events)) = HandlersInArray

\* the callbacks of the configuration that notify the host
Notifications == {"change", "open", "close", "monthChange", "dayCreate"}

\* destroy() has returned: only destroy sets the container to null
destroyed == container = "null"

\* C23: no operation on a destroyed instance invokes an onChange, onOpen,
\* onClose, onMonthChange or onDayCreate callback
C23_SilentAfterDestroy ==
  [][destroyed => \A i \in 1 .. Len(events') : events'[i].type \notin Notifications]_vars

\* the three selection fields are empty
emptySelection ==
  selectedDate = NULL /\ selectedStartDate = NULL /\ selectedEndDate = NULL

\* C24 as stated: right after construction the selection is empty, except
\* that with defaultToToday in Single mode selectedDate is today; in Range
\* mode start and end are empty
C24_InitialSelection ==
  last.op = "new"
    => IF config.defaultToToday /\ config.mode = "single"
       THEN /\ selectedDate # NULL /\ isSameDay(selectedDate, now)
            /\ selectedStartDate = NULL /\ selectedEndDate = NULL
       ELSE emptySelection

\* C24 amended: right after construction the selection is empty, except
\* that with defaultToToday in Single mode, and today not disabled by the
\* configuration, selectedDate is today; when today is disabled the default
\* selection is rejected and the selection is empty
C24_InitialSelectionEnabled ==
  last.op = "new"
    => IF config.defaultToToday /\ config.mode = "single"
            /\ ~isDateDisabled(now, config, now)
       THEN /\ selectedDate # NULL /\ isSameDay(selectedDate, now)
            /\ selectedStartDate = NULL /\ selectedEndDate = NULL
       ELSE emptySelection

\* a Single-mode picker constructed with defaultToToday on a day its
\* configuration disables: nothing is selected
C24_Witness ==
  /\ last.op = "new" /\ config.defaultToToday /\ config.mode = "single"
  /\ isDateDisabled(now, config, now)
  /\ emptySelection /\ events = <<>>

\* --------------------------------------------------------- InfiDate.create
\* the defaults the constructor spreads the given configuration over
constructorDefaults ==
  [mode |-> "single", displayMode |-> "dropdown", attachTo |-> "null",
   minDate |-> InNull, maxDate |-> InNull, minYear |-> NULL, maxYear |-> NULL,
   theme |-> "auto", disable |-> List(<<>>), enable |-> NoList,
   closeOnSelect |-> TRUE, minRangeDays |-> 1, maxRangeDays |-> 365,
   defaultToToday |-> TRUE, maxMonths |-> 72, initialMonths |-> 12,
   onChange |-> "null", onOpen |-> "null", onClose |-> "null",
   onMonthChange |-> "null", onYearChange |-> "null", onDayCreate |-> "null"]

\* InfiDate.defaults
InfiDate_defaults ==
  [mode |-> "single", displayMode |-> "dropdown",
   minDate |-> InNull, maxDate |-> InNull, minYear |-> NULL, maxYear |-> NULL,
   theme |-> "auto", disable |-> List(<<>>), enable |-> NoList,
   closeOnSelect |-> TRUE, minRangeDays |-> 1, maxRangeDays |-> 365,
   defaultToToday |-> FALSE, maxMonths |-> 72, initialMonths |-> 12,
   onChange |-> "null", onOpen |-> "null", onClose |-> "null",
   onMonthChange |-> "null", onYearChange |-> "null", onDayCreate |-> "null"]

\* the object spread { ...defaults, ...given }
spread(defaults, given) ==
  [k \in DOMAIN defaults \cup DOMAIN given |->
     IF k \in DOMAIN given THEN given[k] ELSE defaults[k]]

\* this.config of new InfiDatePicker(given)
constructorConfig(given) == spread(constructorDefaults, given)

\* InfiDate.create(target, given): the configuration it hands to the
\* constructor
create(target, given) ==
  IF target # "null"
  THEN spread(spread(InfiDate_defaults, given), [attachTo |-> target])
  ELSE spread(InfiDate_defaults, given)

\* the configuration objects a caller gives: each of the keys mode,
\* defaultToToday, closeOnSelect and onChange present or absent
GivenConfigs ==
  {[k \in K |-> f[k]] :
     K \in SUBSET {"mode", "defaultToToday", "closeOnSelect", "onChange"},
     f \in [mode : {"single", "range"}, defaultToToday : BOOLEAN,
            closeOnSelect : BOOLEAN, onChange : {"fn"}]}

\* the targets a caller gives to InfiDate.create
Targets == {"null", "input"}

\* new InfiDatePicker(given) or InfiDate.create(target, given)
InitCreate ==
  /\ now = TicksPerDay
  /\ utcOffset = 0
  /\ \E given \in GivenConfigs, via \in {"new", "create"}, target \in Targets :
       /\ config = constructorConfig(IF via = "new" THEN given ELSE create(target, given))
       /\ last = [op |-> via, date |-> NULL, mode |-> "", from |-> "Empty",
                  before |-> FALSE, given |-> given]
  /\ holds(init(config, now, utcOffset))

NextCreate == SelectDate \/ SwitchMode \/ Show \/ Hide

SpecCreate == InitCreate /\ [][NextCreate]_vars

\* C25: a Single-mode picker made by InfiDate.create from a configuration
\* without a defaultToToday key has today selected, as the picker made by
\* new InfiDatePicker from the same configuration has
C25_CreateDefaultsToToday ==
  (/\ last.op = "create"
   /\ "defaultToToday" \notin DOMAIN last.given
   /\ config.mode = "single")
    => /\ selectedDate # NULL
       /\ isSameDay(selectedDate, now)
       /\ selectedDate = init(constructorConfig(last.given), now, utcOffset).selectedDate

\* ------------------------------------------------------------------- view
\* the UTC offsets of the host, in ticks: west of, at, and east of UTC
UtcOffsets == {-1, 0, 1}

\* configurations attached to an input: inline or dropdown, with the
\* default date rules or a blacklist
ViewConfigs ==
  {[c EXCEPT !.attachTo = "input"] :
     c \in {k \in Configs :
              /\ k.onChange = "fn" /\ k.closeOnSelect
              /\ k.minDate = InNull /\ k.enable = NoList}}

InitView == constructedOn(ViewConfigs, UtcOffsets)

\* clickHandler of InfiDatePicker.bindEvents on a rendered day cell: the
\* Date made of the cell's tag is the UTC midnight of the tagged day
Click ==
  \E c \in DOMAIN dayCells :
    /\ container # "null"
    /\ "disabled" \notin dayCells[c]
    /\ becomes(selectDate(picker, config, now, cellDate(c, utcOffset)))
    /\ last' = called("click", cellMidnight(c), "")
    /\ UNCHANGED <<now, utcOffset>>

\* the keys the keydown handler distinguishes (Enter stands for Enter and
\* the space key), and any other key
Keys == {"Escape", "Enter", "a"}

\* keyHandler of InfiDatePicker.bindKeyboardEvents.  Escape hides the
\* picker; Enter looks for a focused day cell, and the day cells, rendered
\* without a tabindex, never have the focus
keyHandler(p, cfg, key) ==
  IF ~p.isOpen THEN p
  ELSE IF key = "Escape" THEN hide(p, cfg)
  ELSE IF key = "Enter" THEN onContainer(p)
  ELSE p

\* a keydown event on the document; destroy removes the listener
Keydown ==
  \E key \in Keys :
    /\ container # "null"
    /\ becomes(keyHandler(picker, config, key))
    /\ last' = called("keydown", NULL, key)
    /\ UNCHANGED <<now, utcOffset>>

NextView == Click \/ Keydown \/ SelectDate \/ SwitchMode \/ Show \/ Hide

SpecView == InitView /\ [][NextView]_vars

\* C26: a click on a rendered, enabled day cell in Single mode notifies
\* onChange with the iso field equal to the cell's tag, whatever the UTC
\* offset of the host
C26_ClickReportsCellDay ==
  [][(last'.op = "click" /\ config.mode = "single")
       => /\ changes(events') # <<>>
          /\ \A i \in 1 .. Len(changes(events')) :
               changes(events')[i].data.iso = iso(last'.date)]_vars

\* C27: for every Date d of the window, at any time of day, parseDate of
\* iso(d) is a Date and falls on the same calendar day as d
C27_RoundTrip ==
  \A d \in Dates :
    /\ parseDate(InStr(iso(d)), now) # NULL
    /\ isSameDay(parseDate(InStr(iso(d)), now), d)

\* the selected Date is not a midnight, and the round trip of it is the
\* midnight of its day
C27_Witness ==
  /\ selectedDate # NULL
  /\ selectedDate % TicksPerDay # 0
  /\ parseDate(InStr(iso(selectedDate)), now) = dayOf(selectedDate) * TicksPerDay

\* C28: every change payload has a timestamp field: in Single mode the
\* timestamp of the selected date, in Range mode the timestamps of the
\* start and of the end
C28_PayloadTimestamps ==
  \A i \in 1 .. Len(changes(events)) :
    /\ "timestamp" \in DOMAIN changes(events)[i].data
    /\ changes(events)[i].data.timestamp =
         IF config.mode = "single"
         THEN selectedDate
         ELSE [start |-> selectedStartDate, end |-> selectedEndDate]

\* ------------------------------------------------- selectDate of a string
\* A selection field holds a Date, null, or whatever value selectDate was
\* handed.  The JavaScript string that is the ISO day string of day n of the
\* window is the value stringOfDay(n).
stringOfDay(n) == -(n + 2)

isString(v) == v < NULL

\* the first day cell of the document
firstCell(p) == CHOOSE c \in DOMAIN p.dayCells : \A k \in DOMAIN p.dayCells : c <= k

\* InfiDatePicker.updateDisplay while selectedDate holds a string: the first
\* cell's classes are reset, its disabled class is set again, and
\* isDateSelected then calls isSameDay(date, selectedDate), where iso reads
\* getFullYear of the string: a TypeError
updateDisplay_onString(p, cfg) ==
  IF p.container = "null" THEN throw(p)
  ELSE throw([p EXCEPT
                !.dayCells[firstCell(p)] =
                  IF isDateDisabled(cellDate(firstCell(p), p.utcOffset), cfg, p.now)
                  THEN {"disabled"} ELSE {}])

\* InfiDatePicker.selectDate(s) in Single mode for the ISO day string s of
\* day n, under a configuration without date rules: isDateDisabled consults
\* no rule and returns false, the string is stored as it is, and
\* updateDisplay throws before triggerChange is reached
selectDate_string(p, cfg, n) ==
  updateDisplay_onString([p EXCEPT !.selectedDate = stringOfDay(n)], cfg)

\* the Single-mode configurations without date rules
StringConfigs == {k \in PlainConfigs : k.mode = "single"}

InitString == constructed(StringConfigs)

\* picker.selectDate('YYYY-MM-DD') for a day of the window
SelectDateString ==
  \E n \in 0 .. NumDays - 1 :
    /\ config.mode = "single"
    /\ becomes(selectDate_string(picker, config, n))
    /\ last' = called("selectDateString", n * TicksPerDay, "")
    /\ UNCHANGED <<now, utcOffset>>

NextString == SelectDateString \/ SelectDate \/ Show \/ Hide

SpecString == InitString /\ [][NextString]_vars

\* C29: selectDate of the ISO day string of a day throws nothing and leaves
\* the selection, and the notifications, as selectDate of the Date of that
\* day leaves them
C29_StringAsDate ==
  [][last'.op = "selectDateString"
       => /\ \A i \in 1 .. Len(events') : events'[i].type # "throw"
          /\ selectedDate' = selectDate(picker, config, now, last'.date).selectedDate
          /\ events' = selectDate(picker, config, now, last'.date).events]_vars

\* the rendered view agrees with the selection of the instance p: the
\* cells marked selected are the cells of the selected days, and the
\* attached input shows the formatted selection
viewAgrees(p) ==
  /\ \A c \in DOMAIN p.dayCells :
       "selected" \in p.dayCells[c] <=> isDateSelected(p, cellMidnight(c))
  /\ p.attachedElement = "input" => p.inputValue = getFormattedValue(p)

\* C30: after every selectDate call, accepted or rejected, the rendered
\* view agrees with the selection
C30_ViewAgrees ==
  [][last'.op = "selectDate" => viewAgrees(picker')]_vars

\* C31: every loadMoreMonths call completes without an error, and either
\* appends one month to loadedMonths or leaves it unchanged
C31_LoadMoreNeverThrows ==
  [][last'.op = "loadMoreMonths"
       => /\ \A i \in 1 .. Len(events') : events'[i].type # "throw"
          /\ \/ loadedMonths' = loadedMonths
             \/ /\ Len(loadedMonths') = Len(loadedMonths) + 1
                /\ isPrefix(loadedMonths, loadedMonths')]_vars

\* C32: a picker whose displayMode is inline is open in every state
C32_InlineAlwaysOpen ==
  (config.displayMode = "inline" /\ ~destroyed) => isOpen

\* C33: in Single mode selectedStartDate and selectedEndDate are empty, and
\* in Range mode selectedDate is empty
C33_InactiveFieldsEmpty ==
  /\ config.mode = "single" => selectedStartDate = NULL /\ selectedEndDate = NULL
  /\ config.mode = "range" => selectedDate = NULL

\* a picker constructed in Single mode, switched to Range mode, holds a
\* complete range and no single date
C33_Witness ==
  /\ ~config.defaultToToday /\ config.mode = "range"
  /\ selectedStartDate # NULL /\ selectedEndDate # NULL /\ selectedDate = NULL

\* C34: every date held in selectedDate, selectedStartDate or
\* selectedEndDate is a date isDateDisabled is false for
C34_SelectionEnabled ==
  \A d \in {selectedDate, selectedStartDate, selectedEndDate} \ {NULL} :
    ~isDateDisabled(d, config, now)

\* C35: show, hide, setTheme and loadMoreMonths leave selectedDate,
\* selectedStartDate, selectedEndDate and config.mode as they were and
\* invoke no onChange callback
C35_OnlySelectionOpsSelect ==
  [][last'.op \in {"show", "hide", "setTheme", "loadMoreMonths"}
       => /\ UNCHANGED <<selectedDate, selectedStartDate, selectedEndDate>>
          /\ config'.mode = config.mode
          /\ changes(events') = <<>>]_vars

\* hide closed a picker that keeps its selected date
C35_Witness ==
  /\ last.op = "hide" /\ ~isOpen /\ selectedDate # NULL
  /\ indices(events, "close") # {}

\* an onOpen or onClose notification: the first callback of the hook
isOpenClose(e) == e.type \in {"open", "close"} /\ e.cb = 1

\* the open and close notifications among the events, in order
openCloses(evs) == [i \in 1 .. Len(SelectSeq(evs, isOpenClose)) |->
                      SelectSeq(evs, isOpenClose)[i].type]

\* C36: show on an open picker and hide on a closed picker change nothing
\* and invoke no callback; construction notifies onOpen once exactly when
\* it leaves the picker open, and every later step notifies onOpen once
\* exactly when it opens the picker and onClose once exactly when it closes
\* it, so that the notifications alternate from onOpen on and isOpen holds
\* exactly when one more onOpen than onClose was notified
C36_OpenCloseAlternate ==
  /\ openCloses(events) = IF isOpen THEN <<"open">> ELSE <<>>
  /\ [][/\ (last'.op = "show" /\ isOpen) => (events' = <<>> /\ isOpen')
        /\ (last'.op = "hide" /\ ~isOpen) => (events' = <<>> /\ ~isOpen')
        /\ openCloses(events') =
             IF ~isOpen /\ isOpen' THEN <<"open">>
             ELSE IF isOpen /\ ~isOpen' THEN <<"close">>
             ELSE <<>>]_vars

\* show was called on an open picker and did nothing
C36_Witness ==
  /\ last.op = "show" /\ isOpen /\ events = <<>>
  /\ config.displayMode = "modal"

\* C37: every Range-mode change payload with a start and an end spans no
\* disabled day: the start, the end and the midnight of every day between
\* them are dates isDateDisabled is false for
C37_RangeHasNoDisabledDay ==
  \A i \in 1 .. Len(changes(events)) :
    (/\ "start" \in DOMAIN changes(events)[i].data
     /\ changes(events)[i].data.start # NULL
     /\ changes(events)[i].data.end # NULL)
      => \A d \in Dates :
           (\/ d = changes(events)[i].data.start
            \/ d = changes(events)[i].data.end
            \/ /\ d % TicksPerDay = 0
               /\ changes(events)[i].data.start < d
               /\ d < changes(events)[i].data.end)
             => ~isDateDisabled(d, config, now)

\* the year of the i-th loaded month
loadedYear(months, i) == splitKey(months[i])[1]

\* C38: when onYearChange is configured and loadMoreMonths appends a month
\* of another year than the month loaded before it, an onYearChange
\* callback is invoked with the new year
C38_YearChangeNotified ==
  [][(/\ last'.op = "loadMoreMonths"
      /\ config.onYearChange # "null"
      /\ loadedMonths # <<>>
      /\ Len(loadedMonths') = Len(loadedMonths) + 1
      /\ loadedYear(loadedMonths', Len(loadedMonths'))
           # loadedYear(loadedMonths, Len(loadedMonths)))
       => \E i \in 1 .. Len(events') :
            /\ events'[i].type = "yearChange"
            /\ events'[i].data = <<loadedYear(loadedMonths', Len(loadedMonths'))>>]_vars

\* ------------------------------------------------------ overlapping rules
\* the configurations whose date constraints overlap or cannot be parsed
OverlapConfigs ==
  {[c EXCEPT !.minDate = rc.minDate, !.maxDate = rc.maxDate,
             !.disable = rc.disable, !.enable = rc.enable] :
     c \in PlainConfigs, rc \in OverlapRules}

InitRules == constructed(OverlapConfigs)

SpecRules == InitRules /\ [][Next]_vars

\* C39: selectDate of a date that matches a whitelist rule and also matches
\* a blacklist rule, or lies before minDate or after maxDate, is rejected:
\* the date is disabled, nothing changes and nothing is notified
C39_BlacklistBeatsWhitelist ==
  [][(/\ last'.op = "selectDate"
      /\ ~config.enable.isNull
      /\ Utils_isDateEnabled(last'.date, config.enable, now)
      /\ \/ Utils_isDateDisabled(last'.date, config.disable, now)
         \/ belowMinDate(last'.date, config, now)
         \/ aboveMaxDate(last'.date, config, now))
       => isDateDisabled(last'.date, config, now) /\ nothingDone]_vars

\* selectDate of a date of the whitelist that is also in the blacklist was
\* refused
C39_Witness ==
  /\ last.op = "selectDate"
  /\ ~config.enable.isNull
  /\ Utils_isDateEnabled(last.date, config.enable, now)
  /\ Utils_isDateDisabled(last.date, config.disable, now)
  /\ selectedDate # last.date /\ selectedStartDate # last.date
  /\ events = <<>>

\* a date input no Date can be made of
unparseable(input) == input.kind = "str" /\ input.s = Junk

\* a rule list without its interval rules that have an unparseable bound
parseableRules(list) ==
  [list EXCEPT !.rules =
     SelectSeq(@, LAMBDA r : ~(r.kind = "range"
                                 /\ (unparseable(r.from) \/ unparseable(r.to))))]

\* the configuration without its unparseable bounds and interval rules
withoutUnparseable(cfg) ==
  [cfg EXCEPT !.minDate = IF unparseable(@) THEN InNull ELSE @,
              !.maxDate = IF unparseable(@) THEN InNull ELSE @,
              !.disable = parseableRules(@),
              !.enable = parseableRules(@)]

\* C40: an unparseable minDate or maxDate, and an interval rule with an
\* unparseable bound in the blacklist or the whitelist, are ignored: every
\* date is disabled exactly when it is disabled under the configuration
\* without them, and no operation throws
C40_UnparseableIgnored ==
  /\ \A d \in Dates :
       isDateDisabled(d, config, now)
         = isDateDisabledBy(d, withoutUnparseable(config), now)
  /\ \A i \in 1 .. Len(events) : events[i].type # "throw"

\* a date was selected under an unparseable minDate and maxDate and
\* blacklist intervals with an unparseable bound
C40_Witness ==
  /\ last.op = "selectDate"
  /\ unparseable(config.minDate) /\ unparseable(config.maxDate)
  /\ \E i \in 1 .. Len(config.disable.rules) :
       config.disable.rules[i].kind = "range" /\ unparseable(config.disable.rules[i].from)
  /\ config.mode = "single" /\ selectedDate = last.date

====
